---- MODULE Spec2Model ----
(***************************************************************************)
(* Z80 core of iz-cpm: the opcode builders of opcode.rs, opcode_arith.rs   *)
(* and opcode_bits.rs, and the ZexIo BDOS trap of zexio.rs.                *)
(*                                                                         *)
(* The machine state is the register file, the flag set, PC, the cycle     *)
(* counter, memory and the bytes written to stdout.  A driver holds a      *)
(* short program of opcodes and executes it one opcode per step, through   *)
(* Opcode::execute.  hist keeps the machine state before each executed     *)
(* opcode so that properties can relate results to inputs.                 *)
(***************************************************************************)
EXTENDS Integers, Sequences, FiniteSets

VARIABLES reg, flags, pc, cycles, mem, out, status, profile, prog, ip, hist, operands

vars == <<reg, flags, pc, cycles, mem, out, status, profile, prog, ip, hist, operands>>

(***************************************************************************)
(* Machine integers                                                        *)
(***************************************************************************)
Byte == 0..255

Pow2(n) == 2^n

\* bit b (0..7) of the byte v, as 0 or 1
Bit(v, b) == (v \div Pow2(b)) % 2

RECURSIVE BitAnd(_, _)
BitAnd(a, b) ==
    IF a = 0 \/ b = 0 THEN 0
    ELSE (a % 2) * (b % 2) + 2 * BitAnd(a \div 2, b \div 2)

RECURSIVE BitOr(_, _)
BitOr(a, b) ==
    IF a = 0 THEN b
    ELSE IF b = 0 THEN a
    ELSE (IF (a % 2) + (b % 2) > 0 THEN 1 ELSE 0) + 2 * BitOr(a \div 2, b \div 2)

\* !x on a u8
Not8(x) == 255 - x

\* x << 1 and x >> 1 on a u8: the bit shifted out is dropped
Shl8(x) == (x * 2) % 256

Shr8(x) == x \div 2

\* u8::wrapping_add, u8::wrapping_sub
wrapping_add(a, d) == (a + d) % 256

wrapping_sub(a, d) == (a - d + 256) % 256

\* Wrapping<u16> addition
wrapping_add16(a, b) == (a + b) % 65536

(***************************************************************************)
(* Register file and flags                                                 *)
(***************************************************************************)
Reg8 == {"A", "B", "C", "D", "E", "H", "L"}

AllFlags == {"S", "Z", "F5", "H", "F3", "P", "N", "C"}

TABLE_RP == <<"BC", "DE", "HL", "SP">>

TABLE_R == <<"B", "C", "D", "E", "H", "L", "_HL_", "A">>

get16(rg, rr) ==
    CASE rr = "BC" -> rg["B"] * 256 + rg["C"]
      [] rr = "DE" -> rg["D"] * 256 + rg["E"]
      [] rr = "HL" -> rg["H"] * 256 + rg["L"]
      [] rr = "SP" -> rg["SP"]

set16(rg, rr, v) ==
    CASE rr = "BC" -> [rg EXCEPT !["B"] = v \div 256, !["C"] = v % 256]
      [] rr = "DE" -> [rg EXCEPT !["D"] = v \div 256, !["E"] = v % 256]
      [] rr = "HL" -> [rg EXCEPT !["H"] = v \div 256, !["L"] = v % 256]
      [] rr = "SP" -> [rg EXCEPT !["SP"] = v]

get_flag(f, flag) == flag \in f

put_flag(f, flag, b) == IF b THEN f \cup {flag} ELSE f \ {flag}

set_flag(f, flag) == f \cup {flag}

clear_flag(f, flag) == f \ {flag}

update_sz53_flags(f, v) ==
    put_flag(put_flag(put_flag(put_flag(f,
        "S", Bit(v, 7) = 1),
        "Z", v = 0),
        "F5", Bit(v, 5) = 1),
        "F3", Bit(v, 3) = 1)

\* number of set bits of a byte
PopCount(v) ==
    Bit(v, 0) + Bit(v, 1) + Bit(v, 2) + Bit(v, 3)
    + Bit(v, 4) + Bit(v, 5) + Bit(v, 6) + Bit(v, 7)

update_p_flag(f, v) == put_flag(f, "P", PopCount(v) % 2 = 0)

update_sz53p_flags(f, v) == update_p_flag(update_sz53_flags(f, v), v)

(***************************************************************************)
(* Memory: a window of bytes at base, every other cell holding fill        *)
(***************************************************************************)
peek(m, address) ==
    LET off == (address - m.base + 65536) % 65536
    IN  IF off < Len(m.bytes) THEN m.bytes[off + 1] ELSE m.fill

\* State::advance_pc: the byte at PC, PC moved on by one
advance_pc(m, p) == [value |-> peek(m, p), pc |-> (p + 1) % 65536]

\* State::advance_immediate16: the little-endian word at PC, PC moved on by two
advance_immediate16(m, p) ==
    LET lo == advance_pc(m, p)
        hi == advance_pc(m, lo.pc)
    IN  [value |-> hi.value * 256 + lo.value, pc |-> hi.pc]

(***************************************************************************)
(* Driver                                                                  *)
(***************************************************************************)
Snapshot == [reg |-> reg, flags |-> flags, pc |-> pc, cycles |-> cycles, out |-> out]

\* the machine state before the i-th opcode of the run (i = Len(hist)+1: now)
Snap(i) == IF i <= Len(hist) THEN hist[i] ELSE Snapshot

Fetch(op) ==
    /\ status = "running"
    /\ ip <= Len(prog)
    /\ prog[ip].op = op

Done == ip = Len(prog) + 1

\* Opcode::execute: the action has run; charge the opcode's cycles
execute(c) ==
    /\ cycles' = cycles + c
    /\ ip' = ip + 1
    /\ hist' = Append(hist, Snapshot)
    /\ UNCHANGED <<mem, profile, prog, operands>>

NoMem == [base |-> 0, bytes |-> <<>>, fill |-> 0]

ZeroRegs == [r \in Reg8 \cup {"SP"} |-> 0]

(***************************************************************************)
(* INC r, DEC r                                                            *)
(***************************************************************************)
inc_value_sat(v) == IF v = 255 THEN 255 ELSE v + 1

inc_value(v) == IF v = 255 THEN 0 ELSE v + 1

dec_value(v) == IF v = 0 THEN 255 ELSE v - 1

inc_flags(f, v) ==
    put_flag(put_flag(clear_flag(update_sz53_flags(f, v), "N"),
        "P", v = 128),
        "H", BitAnd(v, 15) = 0)

dec_flags(f, v) ==
    put_flag(put_flag(set_flag(update_sz53_flags(f, v), "N"),
        "P", v = 127),
        "H", BitAnd(v, 15) = 15)

\* opcode.rs: INC TABLE_R[y]
build_inc_r(y) ==
    /\ Fetch("INC") /\ prog[ip].api = "state" /\ prog[ip].y = y
    /\ LET reg8 == TABLE_R[y + 1]
           v    == inc_value(reg[reg8])
       IN  /\ reg' = [reg EXCEPT ![reg8] = v]
           /\ flags' = inc_flags(flags, v)
    /\ execute(4)
    /\ UNCHANGED <<pc, out, status>>

\* opcode.rs: DEC TABLE_R[y]
build_dec_r(y) ==
    /\ Fetch("DEC") /\ prog[ip].api = "state" /\ prog[ip].y = y
    /\ LET reg8 == TABLE_R[y + 1]
           v    == dec_value(reg[reg8])
       IN  /\ reg' = [reg EXCEPT ![reg8] = v]
           /\ flags' = dec_flags(flags, v)
    /\ execute(4)
    /\ UNCHANGED <<pc, out, status>>

\* operators.rs (not in the source tree): result and flags of an 8 bit INC
operator_inc(f, a) ==
    LET v == wrapping_add(a, 1)
    IN  [value |-> v,
         flags |-> put_flag(put_flag(clear_flag(update_sz53_flags(f, v), "N"),
                       "P", a = 127),
                       "H", BitAnd(a, 15) = 15)]

\* operators.rs (not in the source tree): result and flags of an 8 bit DEC
operator_dec(f, a) ==
    LET v == wrapping_sub(a, 1)
    IN  [value |-> v,
         flags |-> put_flag(put_flag(set_flag(update_sz53_flags(f, v), "N"),
                       "P", a = 128),
                       "H", BitAnd(a, 15) = 0)]

\* opcode_arith.rs: INC r over the Environment
build_inc_r_env(r) ==
    /\ Fetch("INC") /\ prog[ip].api = "env" /\ TABLE_R[prog[ip].y + 1] = r
    /\ LET res == operator_inc(flags, reg[r])
       IN  /\ reg' = [reg EXCEPT ![r] = res.value]
           /\ flags' = res.flags
    /\ execute(4)
    /\ UNCHANGED <<pc, out, status>>

\* opcode_arith.rs: DEC r over the Environment
build_dec_r_env(r) ==
    /\ Fetch("DEC") /\ prog[ip].api = "env" /\ TABLE_R[prog[ip].y + 1] = r
    /\ LET res == operator_dec(flags, reg[r])
       IN  /\ reg' = [reg EXCEPT ![r] = res.value]
           /\ flags' = res.flags
    /\ execute(4)
    /\ UNCHANGED <<pc, out, status>>

\* register selectors y exercised by the INC/DEC runs: B and A
IncDecSel == {0, 7}

IncDecProgs ==
    { <<[op |-> o[1], api |-> api, y |-> y], [op |-> o[2], api |-> api, y |-> y]>> :
        o \in { <<"INC", "DEC">>, <<"DEC", "INC">> },
        api \in {"state", "env"}, y \in IncDecSel }

InitIncDec ==
    /\ prog \in IncDecProgs
    /\ \E v \in Byte : reg = [ZeroRegs EXCEPT ![TABLE_R[prog[1].y + 1]] = v]
    /\ flags \in SUBSET AllFlags
    /\ pc = 0 /\ cycles = 0 /\ mem = NoMem /\ out = <<>>
    /\ status = "running" /\ profile = "release"
    /\ ip = 1 /\ hist = <<>> /\ operands = <<>>

NextIncDec ==
    \/ \E y \in IncDecSel : build_inc_r(y)
    \/ \E y \in IncDecSel : build_dec_r(y)
    \/ \E r \in Reg8 : build_inc_r_env(r)
    \/ \E r \in Reg8 : build_dec_r_env(r)

SpecIncDec == InitIncDec /\ [][NextIncDec]_vars

(***************************************************************************)
(* Rotates and shifts (opcode_bits.rs)                                     *)
(***************************************************************************)
ShiftDir == {"Left", "Right"}

ShiftMode == {"Arithmetic", "Logical", "Rotate", "RotateCarry"}

set_lower_bit_swapped(mode, cin, upper_bit) ==
    CASE mode = "Arithmetic"  -> TRUE
      [] mode = "Logical"     -> FALSE
      [] mode = "Rotate"      -> cin
      [] mode = "RotateCarry" -> upper_bit

\* Left: what goes into bit 0
set_lower_bit(mode, cin, upper_bit) ==
    CASE mode = "Arithmetic"  -> FALSE
      [] mode = "Logical"     -> TRUE
      [] mode = "Rotate"      -> cin
      [] mode = "RotateCarry" -> upper_bit

set_upper_bit_sign(mode, cin, upper_bit, lower_bit) ==
    CASE mode = "Arithmetic"  -> upper_bit
      [] mode = "Logical"     -> FALSE
      [] mode = "Rotate"      -> cin
      [] mode = "RotateCarry" -> upper_bit

\* Right: what goes into bit 7
set_upper_bit(mode, cin, upper_bit, lower_bit) ==
    CASE mode = "Arithmetic"  -> upper_bit
      [] mode = "Logical"     -> FALSE
      [] mode = "Rotate"      -> cin
      [] mode = "RotateCarry" -> lower_bit

\* the new register value and the new Carry
rot_value(v0, cin, dir, mode) ==
    IF dir = "Left"
    THEN LET upper_bit == v0 >= 128
             v1 == Shl8(v0)
         IN  [v     |-> IF set_lower_bit(mode, cin, upper_bit) THEN BitOr(v1, 1) ELSE v1,
              carry |-> upper_bit]
    ELSE LET upper_bit == v0 >= 128
             lower_bit == BitAnd(v0, 1) = 1
             v1 == Shr8(v0)
         IN  [v     |-> IF set_upper_bit(mode, cin, upper_bit, lower_bit)
                        THEN BitOr(v1, 128) ELSE v1,
              carry |-> lower_bit]

build_rot_r(r, dir, mode, fast) ==
    /\ Fetch("ROT")
    /\ prog[ip] = [op |-> "ROT", r |-> r, dir |-> dir, mode |-> mode, fast |-> fast]
    /\ LET res == rot_value(reg[r], get_flag(flags, "C"), dir, mode)
           f1  == clear_flag(clear_flag(put_flag(flags, "C", res.carry), "H"), "N")
       IN  /\ reg' = [reg EXCEPT ![r] = res.v]
           /\ flags' = IF ~fast
                       THEN update_p_flag(update_sz53_flags(f1, res.v), res.v)
                       ELSE f1
    /\ execute(IF fast THEN 4 ELSE 8)
    /\ UNCHANGED <<pc, out, status>>

RotOp(r, dir, mode, fast) ==
    [op |-> "ROT", r |-> r, dir |-> dir, mode |-> mode, fast |-> fast]

\* the fast forms exist for the accumulator only
RotVariants == { <<"A", TRUE>>, <<"A", FALSE>>, <<"B", FALSE>> }

RotProgs ==
    { <<RotOp(rf[1], dir, mode, rf[2])>> :
        rf \in RotVariants, dir \in ShiftDir, mode \in ShiftMode }
    \cup
    { <<RotOp(rf[1], d[1], "RotateCarry", rf[2]), RotOp(rf[1], d[2], "RotateCarry", rf[2])>> :
        rf \in RotVariants, d \in { <<"Right", "Left">>, <<"Left", "Right">> } }

RotFlags == {"C", "H", "N", "S"}

InitRot ==
    /\ prog \in RotProgs
    /\ \E v \in Byte : reg = [ZeroRegs EXCEPT ![prog[1].r] = v]
    /\ flags \in SUBSET RotFlags
    /\ pc = 0 /\ cycles = 0 /\ mem = NoMem /\ out = <<>>
    /\ status = "running" /\ profile = "release"
    /\ ip = 1 /\ hist = <<>> /\ operands = <<>>

NextRot ==
    \E r \in Reg8, dir \in ShiftDir, mode \in ShiftMode, fast \in BOOLEAN :
        build_rot_r(r, dir, mode, fast)

SpecRot == InitRot /\ [][NextRot]_vars

(***************************************************************************)
(* BIT, SET, RES (opcode_bits.rs)                                          *)
(***************************************************************************)
BitNo == 0..7

\* 1 << bit, as a u8
mask(bit) == Pow2(bit) % 256

bit_test(v8, bit) == BitAnd(v8, mask(bit)) # 0

set_value(v, bit) == BitOr(v, mask(bit))

res_value_keep(v, bit) == BitAnd(v, mask(bit))

res_value(v, bit) == BitAnd(v, Not8(mask(bit)))

build_bit_r(bit, r) ==
    /\ Fetch("BIT") /\ prog[ip].bit = bit /\ prog[ip].r = r
    /\ flags' = put_flag(flags, "Z", bit_test(reg[r], bit))
    /\ execute(8)
    /\ UNCHANGED <<reg, pc, out, status>>

build_set_r(bit, r) ==
    /\ Fetch("SET") /\ prog[ip].bit = bit /\ prog[ip].r = r
    /\ reg' = [reg EXCEPT ![r] = set_value(reg[r], bit)]
    /\ execute(8)
    /\ UNCHANGED <<flags, pc, out, status>>

build_res_r(bit, r) ==
    /\ Fetch("RES") /\ prog[ip].bit = bit /\ prog[ip].r = r
    /\ reg' = [reg EXCEPT ![r] = res_value(reg[r], bit)]
    /\ execute(8)
    /\ UNCHANGED <<flags, pc, out, status>>

BitOp(op, bit, r) == [op |-> op, bit |-> bit, r |-> r]

BitRegs == {"A", "B"}

BitProgs ==
    { <<BitOp("BIT", b, r)>> : b \in BitNo, r \in BitRegs }
    \cup { <<BitOp("SET", b, r), BitOp("RES", b, r)>> : b \in BitNo, r \in BitRegs }
    \cup { <<BitOp("RES", b, r), BitOp("SET", b, r)>> : b \in BitNo, r \in BitRegs }

BitFlags == {"Z", "C", "H", "N"}

InitBits ==
    /\ prog \in BitProgs
    /\ \E v \in Byte : reg = [ZeroRegs EXCEPT ![prog[1].r] = v]
    /\ flags \in SUBSET BitFlags
    /\ pc = 0 /\ cycles = 0 /\ mem = NoMem /\ out = <<>>
    /\ status = "running" /\ profile = "release"
    /\ ip = 1 /\ hist = <<>> /\ operands = <<>>

NextBits ==
    \/ \E bit \in BitNo, r \in Reg8 : build_bit_r(bit, r)
    \/ \E bit \in BitNo, r \in Reg8 : build_set_r(bit, r)
    \/ \E bit \in BitNo, r \in Reg8 : build_res_r(bit, r)

SpecBits == InitBits /\ [][NextBits]_vars

(***************************************************************************)
(* DAA (opcode_arith.rs)                                                   *)
(***************************************************************************)
daa_lo6(a, hf) == hf \/ (BitAnd(a, 15) > 9)

daa_hi6_short(a, cf) == cf \/ (Shr8(Shr8(Shr8(Shr8(a)))) > 9)

daa_hi6(a, cf) ==
    LET hi == Shr8(Shr8(Shr8(Shr8(a))))
        lo == BitAnd(a, 15)
    IN  cf \/ (hi > 9) \/ (hi = 9 /\ lo > 9)

daa_diff(lo6, hi6) == (IF lo6 THEN 6 ELSE 0) + (IF hi6 THEN 6 * 16 ELSE 0)

daa_new_a(a, nf, diff) == IF nf THEN wrapping_sub(a, diff) ELSE wrapping_add(a, diff)

daa_new_hf_le(a, nf, hf) ==
    LET lo == BitAnd(a, 15)
    IN  (~nf /\ lo > 9) \/ (nf /\ hf /\ lo <= 6)

daa_new_hf(a, nf, hf) ==
    LET lo == BitAnd(a, 15)
    IN  (~nf /\ lo > 9) \/ (nf /\ hf /\ lo < 6)

build_daa ==
    /\ Fetch("DAA")
    /\ LET a      == reg["A"]
           nf     == get_flag(flags, "N")
           cf     == get_flag(flags, "C")
           hf     == get_flag(flags, "H")
           lo6    == daa_lo6(a, hf)
           hi6    == daa_hi6(a, cf)
           new_a  == daa_new_a(a, nf, daa_diff(lo6, hi6))
           new_hf == daa_new_hf(a, nf, hf)
           new_cf == hi6
       IN  /\ reg' = [reg EXCEPT !["A"] = new_a]
           /\ flags' = put_flag(put_flag(update_sz53p_flags(flags, new_a),
                           "H", new_hf), "C", new_cf)
    /\ execute(4)
    /\ UNCHANGED <<pc, out, status>>

\* every accumulator value under every flag state
InitDaa ==
    /\ prog = << [op |-> "DAA"] >>
    /\ \E a \in Byte : reg = [ZeroRegs EXCEPT !["A"] = a]
    /\ flags \in SUBSET AllFlags
    /\ pc = 0 /\ cycles = 0 /\ mem = NoMem /\ out = <<>>
    /\ status = "running" /\ profile = "release"
    /\ ip = 1 /\ hist = <<>> /\ operands = <<>>

NextDaa == build_daa

SpecDaa == InitDaa /\ [][NextDaa]_vars

\* packed BCD bytes: both nibbles 0..9
IsBCD(b) == (b \div 16) <= 9 /\ (b % 16) <= 9

BCD == { b \in Byte : IsBCD(b) }

\* the machine right after a binary ADD (sub = FALSE) or SUB (sub = TRUE) of the
\* packed BCD bytes x and y: A, N, H and C as the operation leaves them
InitBcd ==
    /\ prog = << [op |-> "DAA"] >>
    /\ \E x \in BCD, y \in BCD, sub \in BOOLEAN, other \in SUBSET {"Z", "P"} :
         /\ operands = [x |-> x, y |-> y, sub |-> sub]
         /\ reg = [ZeroRegs EXCEPT !["A"] = IF sub THEN wrapping_sub(x, y)
                                                   ELSE wrapping_add(x, y)]
         /\ flags = other
                \cup (IF sub THEN {"N"} ELSE {})
                \cup (IF sub THEN (IF (x % 16) < (y % 16) THEN {"H"} ELSE {})
                             ELSE (IF (x % 16) + (y % 16) > 15 THEN {"H"} ELSE {}))
                \cup (IF sub THEN (IF x < y THEN {"C"} ELSE {})
                             ELSE (IF x + y > 255 THEN {"C"} ELSE {}))
    /\ pc = 0 /\ cycles = 0 /\ mem = NoMem /\ out = <<>>
    /\ status = "running" /\ profile = "release"
    /\ ip = 1 /\ hist = <<>>

SpecBcd == InitBcd /\ [][NextDaa]_vars

(***************************************************************************)
(* LD rr,nn and ADD HL,rr (opcode.rs)                                      *)
(***************************************************************************)
build_ld_rr_nn(p) ==
    /\ Fetch("LD_RR_NN") /\ prog[ip].p = p
    /\ LET reg16 == TABLE_RP[p + 1]
           imm   == advance_immediate16(mem, pc)
       IN  /\ reg' = set16(reg, reg16, imm.value)
           /\ pc' = imm.pc
    /\ execute(10)
    /\ UNCHANGED <<flags, out, status>>

build_add_hl_rr(p) ==
    /\ Fetch("ADD_HL_RR") /\ prog[ip].p = p
    /\ LET reg16 == TABLE_RP[p + 1]
           v     == wrapping_add16(get16(reg, "HL"), get16(reg, reg16))
       IN  reg' = set16(reg, "HL", v)
    /\ execute(11)
    /\ UNCHANGED <<flags, pc, out, status>>

RpSel == 0..3

LdAddProgs ==
    { << [op |-> "LD_RR_NN", p |-> p], [op |-> "ADD_HL_RR", p |-> q] >> :
        p \in RpSel, q \in RpSel }

\* HL = 0; the immediate word sits at PC
InitLdAdd ==
    /\ prog \in LdAddProgs
    /\ \E a \in {0, 255}, b \in {0, 255}, c \in {0, 255}, sp \in {0, 65535} :
         reg = [ZeroRegs EXCEPT !["A"] = a, !["B"] = b, !["C"] = c, !["SP"] = sp]
    /\ flags \in SUBSET AllFlags
    /\ pc \in {256, 65535}
    /\ cycles \in {0, 1000}
    /\ mem \in { [base |-> pc, bytes |-> w, fill |-> 0] :
                   w \in { <<52, 18>>, <<255, 255>> } }
    /\ out = <<>>
    /\ status = "running" /\ profile = "release"
    /\ ip = 1 /\ hist = <<>> /\ operands = <<>>

NextLdAdd ==
    \/ \E p \in RpSel : build_ld_rr_nn(p)
    \/ \E p \in RpSel : build_add_hl_rr(p)

SpecLdAdd == InitLdAdd /\ [][NextLdAdd]_vars

(***************************************************************************)
(* ZexIo: the BDOS trap on port 5 (zexio.rs)                               *)
(***************************************************************************)
\* '$', the string terminator of BDOS function 9
Dollar == 36

\* "IO address IN "
TraceText == <<73, 79, 32, 97, 100, 100, 114, 101, 115, 115, 32, 73, 78, 32>>

\* "**** "
Banner == <<42, 42, 42, 42, 32>>

Newline == <<10>>

HexDigit(d) == IF d < 10 THEN 48 + d ELSE 87 + d

\* format!("{:04x}", n)
Hex4(n) ==
    << HexDigit((n \div 4096) % 16), HexDigit((n \div 256) % 16),
       HexDigit((n \div 16) % 16), HexDigit(n % 16) >>

print_char_raw(ch) == <<ch>>

\* print!("{}", ch as char): the UTF-8 encoding of the code point ch
print_char(ch) ==
    IF ch < 128 THEN <<ch>>
    ELSE << 192 + (ch \div 64), 128 + (ch % 64) >>

\* the while loop of bdos_c_writestr from address on; o is what was printed so
\* far.  address += 1 on 0xFFFF panics in a build with overflow checks and
\* wraps to 0 in a build without them.
RECURSIVE writestr_loop(_, _, _, _)
writestr_loop(m, address, o, prof) ==
    LET ch == peek(m, address)
    IN  IF ch = Dollar THEN [out |-> o, status |-> "running"]
        ELSE IF address = 65535 /\ prof = "debug"
             THEN [out |-> o \o print_char(ch), status |-> "panic"]
             ELSE writestr_loop(m, (address + 1) % 65536, o \o print_char(ch), prof)

bdos_c_writestr(rg, m, o, prof) ==
    writestr_loop(m, get16(rg, "DE"), o \o Banner, prof)

bdos(rg, m, o, prof) ==
    LET f == rg["C"]
    IN  IF f = 9 THEN bdos_c_writestr(rg, m, o, prof)
        ELSE [out |-> o, status |-> "panic"]

port_in(address) ==
    /\ Fetch("PORT_IN") /\ prog[ip].address = address
    /\ LET o1  == out \o TraceText \o Hex4(address) \o Newline
           res == IF address % 256 = 5 THEN bdos(reg, mem, o1, profile)
                  ELSE [out |-> o1, status |-> "running"]
       IN  /\ out' = res.out
           /\ status' = res.status
    /\ ip' = ip + 1
    /\ hist' = Append(hist, Snapshot)
    /\ UNCHANGED <<reg, flags, pc, cycles, mem, profile, prog, operands>>

\* longest buffer placed in memory
MaxLen == 3

\* 'H', 'I', '$' and a byte above 0x7F
Chars == {72, 73, Dollar, 233}

Buffers == UNION { [1..n -> Chars] : n \in 1..MaxLen }

Bases == {256, 65533, 65534, 65535}

Ports == {5, 261, 6}

\* a buffer somewhere in memory, '$' in every other cell, DE inside the buffer
InitZex ==
    /\ \E address \in Ports : prog = << [op |-> "PORT_IN", address |-> address] >>
    /\ mem \in { [base |-> b, bytes |-> w, fill |-> Dollar] : b \in Bases, w \in Buffers }
    /\ \E off \in 0..(Len(mem.bytes) - 1), f \in {9, 2} :
         reg = set16([ZeroRegs EXCEPT !["C"] = f], "DE", (mem.base + off) % 65536)
    /\ profile \in {"debug", "release"}
    /\ flags = {} /\ pc = 0 /\ cycles = 0 /\ out = <<>>
    /\ status = "running"
    /\ ip = 1 /\ hist = <<>> /\ operands = <<>>

NextZex == \E address \in Ports : port_in(address)

SpecZex == InitZex /\ [][NextZex]_vars

(***************************************************************************)
(* Properties                                                              *)
(***************************************************************************)
\* the register the i-th opcode of an INC/DEC run works on
IncDecReg(i) == TABLE_R[prog[i].y + 1]

\* the decimal value of a packed BCD byte, and the packed BCD byte of 0..99
Dec(b) == (b \div 16) * 10 + (b % 16)

ToBCD(n) == (n \div 10) * 16 + (n % 10)

\* C1: after a binary ADD of two packed BCD bytes x and y, DAA leaves in A the
\* packed BCD of (x+y) mod 100 and sets Carry exactly when the decimal sum is
\* 100 or more; after a binary SUB, DAA leaves the packed BCD of (x-y) mod 100
\* and sets Carry exactly when x < y.
C1_DaaBcd ==
    Done =>
        LET x == Dec(operands.x)
            y == Dec(operands.y)
        IN  IF operands.sub
            THEN /\ reg["A"] = ToBCD((x - y + 100) % 100)
                 /\ ("C" \in flags) <=> (x < y)
            ELSE /\ reg["A"] = ToBCD((x + y) % 100)
                 /\ ("C" \in flags) <=> (x + y >= 100)

\* 45 + 55: the raw sum 0x9A is adjusted to 0x00 with Carry
C1_Witness ==
    /\ Done
    /\ operands = [x |-> 69, y |-> 85, sub |-> FALSE]
    /\ hist[1].reg["A"] = 154
    /\ reg["A"] = 0
    /\ "C" \in flags

\* C2: INC then DEC, or DEC then INC, of a register restores its value, with
\* 255+1 = 0 and 0-1 = 255, and no single INC or DEC changes Carry.
C2_IncDecRoundTrip ==
    /\ \A i \in 1..Len(hist) :
         LET before == Snap(i).reg[IncDecReg(i)]
             after  == Snap(i + 1).reg[IncDecReg(i)]
         IN  /\ ("C" \in Snap(i + 1).flags) <=> ("C" \in Snap(i).flags)
             /\ (prog[i].op = "INC" /\ before = 255) => after = 0
             /\ (prog[i].op = "DEC" /\ before = 0) => after = 255
    /\ Done => reg[IncDecReg(1)] = hist[1].reg[IncDecReg(1)]

\* INC 255, DEC 0 with Carry set throughout
C2_Witness ==
    /\ Done
    /\ prog[1] = [op |-> "INC", api |-> "state", y |-> 7]
    /\ hist[1].reg["A"] = 255
    /\ hist[2].reg["A"] = 0
    /\ reg["A"] = 255
    /\ "C" \in hist[1].flags

\* C3: rotating a register right through bit 0 -> bit 7 (Right, RotateCarry)
\* and then left through bit 7 -> bit 0 (Left, RotateCarry) restores it, in
\* the fast and in the full variant, whatever Carry was.
C3_RotateRoundTrip ==
    (Done /\ Len(prog) = 2 /\ prog[1].dir = "Right" /\ prog[2].dir = "Left")
        => reg[prog[1].r] = hist[1].reg[prog[1].r]

C3_Witness ==
    /\ Done /\ Len(prog) = 2
    /\ prog[1] = RotOp("A", "Right", "RotateCarry", TRUE)
    /\ prog[2] = RotOp("A", "Left", "RotateCarry", TRUE)
    /\ hist[1].reg["A"] = 1
    /\ "C" \notin hist[1].flags
    /\ hist[2].reg["A"] = 128
    /\ reg["A"] = 1

\* the value of v with bit b forced to 0
Cleared(v, b) == v - Bit(v, b) * Pow2(b)

SetThenRes == Done /\ Len(prog) = 2 /\ prog[1].op = "SET" /\ prog[2].op = "RES"

\* C4 (as amended): SET b,r followed by RES b,r leaves r equal to its
\* original value with bit b cleared; that is the original value exactly
\* when bit b was 0 to begin with.
C4_SetResClearsBit ==
    SetThenRes =>
        LET r  == prog[1].r
            v0 == hist[1].reg[r]
            b  == prog[1].bit
        IN  /\ reg[r] = Cleared(v0, b)
            /\ (reg[r] = v0) <=> (Bit(v0, b) = 0)

\* C4 (as claimed): SET b,r followed by RES b,r restores the original byte.
C4_Original ==
    SetThenRes => reg[prog[1].r] = hist[1].reg[prog[1].r]

C4_Witness ==
    /\ SetThenRes
    /\ prog[1].r = "A" /\ prog[1].bit = 0
    /\ hist[1].reg["A"] = 129
    /\ hist[2].reg["A"] = 129
    /\ reg["A"] = 128

\* C5: with HL = 0, LD BC,0x1234 then ADD HL,BC gives HL = 0x1234, Carry and
\* Half-carry clear, and 21 more cycles.
C5_LdAddEndToEnd ==
    (/\ Done
     /\ prog = << [op |-> "LD_RR_NN", p |-> 0], [op |-> "ADD_HL_RR", p |-> 0] >>
     /\ mem.bytes = <<52, 18>>)
        => /\ get16(reg, "HL") = 4660
           /\ "C" \notin flags
           /\ "H" \notin flags
           /\ cycles = hist[1].cycles + 21

\* what BDOS function 9 is asked to print: the bytes from DE up to the first '$'
BdosCall == Done /\ prog[1].address % 256 = 5 /\ hist[1].reg["C"] = 9

TextAt(m, de, n) == [i \in 1..n |-> peek(m, (de + i - 1) % 65536)]

FirstDollar(m, de) ==
    CHOOSE k \in 0..Len(m.bytes) :
        /\ peek(m, (de + k) % 65536) = Dollar
        /\ \A j \in 0..(k - 1) : peek(m, (de + j) % 65536) # Dollar

\* the UTF-8 bytes of the code points of a byte string read as Latin-1
RECURSIVE Latin1Utf8(_)
Latin1Utf8(t) ==
    IF t = <<>> THEN <<>>
    ELSE (IF Head(t) <= 127 THEN <<Head(t)>>
          ELSE << 192 + (Head(t) \div 64), 128 + (Head(t) % 64) >>)
         \o Latin1Utf8(Tail(t))

TraceLine == TraceText \o Hex4(prog[1].address) \o Newline

\* C6 (as amended): the write-string call writes the trace line
\* "IO address IN <port, 4 hex digits>", the banner "**** ", and then the
\* characters of the bytes from DE up to but not including the first '$',
\* each byte above 0x7F as the two UTF-8 bytes of its code point, and
\* nothing after them; a build with overflow checks that has to step past
\* 0xFFFF stops after the character at 0xFFFF.
C6_WriteStrOutput ==
    BdosCall =>
        LET de == get16(hist[1].reg, "DE")
            n  == IF status = "panic" THEN 65536 - de ELSE FirstDollar(mem, de)
        IN  out = TraceLine \o Banner \o Latin1Utf8(TextAt(mem, de, n))

\* C6 (as claimed): the call writes exactly the bytes from DE up to but not
\* including the first '$', with nothing before and nothing after.
C6_Original ==
    BdosCall =>
        LET de == get16(hist[1].reg, "DE")
        IN  out = TextAt(mem, de, FirstDollar(mem, de))

\* "HI$" at 0x0100: the output is "IO address IN 0005\n**** HI"
C6_Witness ==
    /\ BdosCall
    /\ prog[1].address = 5
    /\ mem = [base |-> 256, bytes |-> <<72, 73, 36>>, fill |-> Dollar]
    /\ get16(reg, "DE") = 256
    /\ out = <<73, 79, 32, 97, 100, 100, 114, 101, 115, 115, 32, 73, 78, 32,
               48, 48, 48, 53, 10, 42, 42, 42, 42, 32, 72, 73>>

\* C7: the scan of the write-string call never faults: it returns normally,
\* and when no '$' lies in DE..0xFFFF it goes on from 0xFFFF to 0x0000, so
\* that everything up to the first '$' after the wrap is printed.
C7_ScanWrapsNoFault ==
    BdosCall =>
        LET de == get16(hist[1].reg, "DE")
        IN  /\ status = "running"
            /\ Len(out) >= Len(TraceLine) + Len(Banner) + FirstDollar(mem, de)

\* the DAA table for the accumulator a0 and the flags f0 it starts from
DaaTable ==
    LET a0      == hist[1].reg["A"]
        f0      == hist[1].flags
        lo      == a0 % 16
        hi      == a0 \div 16
        lowfix  == "H" \in f0 \/ lo > 9
        highfix == "C" \in f0 \/ hi > 9 \/ (hi = 9 /\ lo > 9)
        corr    == (IF lowfix THEN 6 ELSE 0) + (IF highfix THEN 96 ELSE 0)
        a1      == reg["A"]
    IN  /\ a1 = IF "N" \in f0 THEN (a0 - corr + 256) % 256 ELSE (a0 + corr) % 256
        /\ ("C" \in flags) <=> highfix
        /\ ("H" \in flags) <=> \/ ("N" \notin f0 /\ lo > 9)
                               \/ ("N" \in f0 /\ "H" \in f0 /\ lo < 6)
        /\ ("N" \in flags) <=> ("N" \in f0)
        /\ ("S" \in flags) <=> (a1 >= 128)
        /\ ("Z" \in flags) <=> (a1 = 0)
        /\ ("F5" \in flags) <=> ((a1 \div 32) % 2 = 1)
        /\ ("F3" \in flags) <=> ((a1 \div 8) % 2 = 1)
        /\ ("P" \in flags) <=>
             (Cardinality({ b \in 0..7 : (a1 \div Pow2(b)) % 2 = 1 }) % 2 = 0)

\* C8 (as amended): DAA follows the table for all 2048 cases of (A, N, H, C);
\* in particular A = 0x0F with N clear, H set and C clear yields A = 0x15.
C8_DaaTable ==
    Done =>
        /\ DaaTable
        /\ (/\ hist[1].reg["A"] = 15
            /\ "N" \notin hist[1].flags
            /\ "H" \in hist[1].flags
            /\ "C" \notin hist[1].flags) => reg["A"] = 21

\* C8 (as claimed): DAA follows the table for all 2048 cases of (A, N, H, C);
\* in particular A = 0x0F with N clear and H set yields A = 0x15.
C8_Original ==
    Done =>
        /\ DaaTable
        /\ (/\ hist[1].reg["A"] = 15
            /\ "N" \notin hist[1].flags
            /\ "H" \in hist[1].flags) => reg["A"] = 21

\* after a subtraction: A = 0x06 with N and H set, C clear gives 0x00, H clear
C8_Witness ==
    /\ Done
    /\ hist[1].reg["A"] = 6
    /\ hist[1].flags = {"N", "H"}
    /\ reg["A"] = 0
    /\ flags = {"N", "Z", "P"}

\* what every rotate or shift does to Carry and, for the two shift modes other
\* than Logical Left, to the vacated bit
RotCommon(i) ==
    LET o      == prog[i]
        before == Snap(i).reg[o.r]
        after  == Snap(i + 1).reg[o.r]
        carry  == "C" \in Snap(i + 1).flags
    IN  /\ o.dir = "Left"  => (carry <=> Bit(before, 7) = 1)
        /\ o.dir = "Right" => (carry <=> Bit(before, 0) = 1)
        /\ (o.mode = "Logical" /\ o.dir = "Right") => Bit(after, 7) = 0
        /\ (o.mode = "Arithmetic" /\ o.dir = "Left") => Bit(after, 0) = 0
        /\ (o.mode = "Arithmetic" /\ o.dir = "Right") => Bit(after, 7) = Bit(before, 7)

LogicalLeftFill(i) == Bit(Snap(i + 1).reg[prog[i].r], 0)

\* C9 (as amended): Logical fills the vacated bit with 1 for Left (bit 0) and
\* with 0 for Right (bit 7); Arithmetic fills with 0 for Left and with the old
\* bit 7 for Right; in all eight cases the new Carry is the bit shifted off.
C9_ShiftFill ==
    \A i \in 1..Len(hist) :
        /\ RotCommon(i)
        /\ (prog[i].mode = "Logical" /\ prog[i].dir = "Left") => LogicalLeftFill(i) = 1

\* C9 (as claimed): Logical always fills the vacated bit with 0; Arithmetic
\* fills with 0 for Left and with the old bit 7 for Right; in all eight cases
\* the new Carry is the bit shifted off.
C9_Original ==
    \A i \in 1..Len(hist) :
        /\ RotCommon(i)
        /\ (prog[i].mode = "Logical" /\ prog[i].dir = "Left") => LogicalLeftFill(i) = 0

\* a Logical Left shift of 0x80 in B gives 0x01 and Carry
C9_Witness ==
    /\ Done
    /\ prog = << RotOp("B", "Left", "Logical", FALSE) >>
    /\ hist[1].reg["B"] = 128
    /\ reg["B"] = 1
    /\ "C" \in flags

\* C10: BIT b,r changes no register and sets Zero exactly when bit b of r is 0.
C10_BitZeroFlag ==
    \A i \in 1..Len(hist) :
        prog[i].op = "BIT" =>
            /\ Snap(i + 1).reg = Snap(i).reg
            /\ ("Z" \in Snap(i + 1).flags) <=> (Bit(Snap(i).reg[prog[i].r], prog[i].bit) = 0)

====
